---- MODULE Spec2Model ----
(***************************************************************************)
(* Model of cut_images_to_pdf.py: the filename codec (extract_page_count,  *)
(* get_base_filename, get_output_filename), the slicer                     *)
(* (cut_image_vertically), the batch loop (process_folder) and the         *)
(* ImageCutterApp threads: the main run loop (button and timer handlers)   *)
(* and the worker thread started by startProcessing_.                      *)
(*                                                                         *)
(* A filename is a sequence of one-character strings.  An optional value   *)
(* (Python None or a value) is the empty sequence or a one-element         *)
(* sequence.                                                               *)
(***************************************************************************)
EXTENDS Integers, Sequences, FiniteSets, TLC

\* ------------------------------------------------------------------ bounds
MaxStemLen == 4
MaxHeight == 7
MaxWidth == 2
MaxParts == 4

\* ------------------------------------------------------------ optional values
None == << >>
Some(x) == << x >>

\* --------------------------------------------------------------- characters
NL == "\n"
Digits == {"0", "1", "2", "3", "4", "5", "6", "7", "8", "9"}

IsDigit(c) == c \in Digits

DigitVal(c) ==
  CASE c = "0" -> 0 [] c = "1" -> 1 [] c = "2" -> 2 [] c = "3" -> 3
    [] c = "4" -> 4 [] c = "5" -> 5 [] c = "6" -> 6 [] c = "7" -> 7
    [] c = "8" -> 8 [] c = "9" -> 9

\* int(match.group(1)): base-10 value of a digit string, leading zeros allowed
RECURSIVE ToInt(_)
ToInt(ds) ==
  IF ds = << >> THEN 0
  ELSE 10 * ToInt(SubSeq(ds, 1, Len(ds) - 1)) + DigitVal(ds[Len(ds)])

\* The alternation (png|jpg|jpeg|PNG|JPG|JPEG) of the three regular expressions
Exts ==
  { <<"p", "n", "g">>, <<"j", "p", "g">>, <<"j", "p", "e", "g">>,
    <<"P", "N", "G">>, <<"J", "P", "G">>, <<"J", "P", "E", "G">> }

PdfExt == <<".", "p", "d", "f">>

\* "$" without re.MULTILINE: the end of the string, or just before a final newline.
\* p is the position following the last matched character.
AtDollar(s, p) == p = Len(s) + 1 \/ (p = Len(s) /\ s[p] = NL)

\* (png|...|JPEG)$ matched from position k
ExtAt(s, k) ==
  \E e \in Exts :
    /\ k + Len(e) - 1 <= Len(s)
    /\ SubSeq(s, k, k + Len(e) - 1) = e
    /\ AtDollar(s, k + Len(e))

\* -(\d+)\.(ext)$ matched with the hyphen at position i and the last digit at j
SuffixMatch(s, i, j) ==
  /\ i >= 1 /\ i < j /\ j + 1 <= Len(s)
  /\ s[i] = "-"
  /\ \A k \in (i + 1)..j : IsDigit(s[k])
  /\ s[j + 1] = "."
  /\ ExtAt(s, j + 2)

SuffixAt(s, i) == \E j \in (i + 1)..Len(s) : SuffixMatch(s, i, j)

LastDigit(s, i) == CHOOSE j \in (i + 1)..Len(s) : SuffixMatch(s, i, j)

\* the position following the whole match (the extension's end)
MatchEnd(s, i) ==
  LET j == LastDigit(s, i)
      e == CHOOSE x \in Exts :
             /\ j + 1 + Len(x) <= Len(s)
             /\ SubSeq(s, j + 2, j + 1 + Len(x)) = x
             /\ AtDollar(s, j + 2 + Len(x))
  IN j + 2 + Len(e)

\* re.search: the leftmost position at which the pattern matches
Min(S) == CHOOSE x \in S : \A y \in S : x <= y

SearchStarts(s) == { i \in 1..Len(s) : SuffixAt(s, i) }

extract_page_count(filename) ==
  IF SearchStarts(filename) = {} THEN None
  ELSE LET i == Min(SearchStarts(filename))
       IN Some(ToInt(SubSeq(filename, i + 1, LastDigit(filename, i))))

\* ^(.+?)-\d+\.(ext)$ : a non-empty prefix without newline ("." excludes it),
\* the shortest one after which the suffix matches
BaseStarts(s) ==
  { i \in 2..Len(s) : SuffixAt(s, i) /\ \A k \in 1..(i - 1) : s[k] # NL }

get_base_filename(input_filename) ==
  IF BaseStarts(input_filename) = {} THEN None
  ELSE Some(SubSeq(input_filename, 1, Min(BaseStarts(input_filename)) - 1))

\* re.sub: the match is replaced by ".pdf"; what follows it (a final newline) is kept
get_output_filename(input_filename) ==
  IF SearchStarts(input_filename) = {} THEN input_filename
  ELSE LET i == Min(SearchStarts(input_filename))
       IN SubSeq(input_filename, 1, i - 1) \o PdfExt
            \o SubSeq(input_filename, MatchEnd(input_filename, i), Len(input_filename))

\* the discovery filter of process_folder: re.search(r'-\d+\.(ext)$', f)
IsCandidate(f) == SearchStarts(f) # {}

\* ------------------------------------------------------------------ slicer
\* every part ends at (i + 1) * part_height: the remainder rows are dropped
CropBoxNoRemainder(i, width, height, num_parts, part_height) ==
  << 0, i * part_height, width, (i + 1) * part_height >>

\* lines 71-75: the crop box (left, top, right, bottom) of part i (0-based)
CropBox(i, width, height, num_parts, part_height) ==
  LET top == i * part_height
      bottom == IF i < num_parts - 1 THEN (i + 1) * part_height ELSE height
  IN << 0, top, width, bottom >>

\* Python's // for a non-negative dividend and a positive divisor
FloorDiv(a, b) == a \div b

RECURSIVE CropLoop(_, _, _, _, _)
CropLoop(n, width, height, num_parts, part_height) ==
  IF n = 0 THEN << >>
  ELSE Append(CropLoop(n - 1, width, height, num_parts, part_height),
              CropBox(n - 1, width, height, num_parts, part_height))

\* the value cut_image_vertically returns for a decodable image, num_parts >= 1
cut_image_vertically(width, height, num_parts) ==
  CropLoop(num_parts, width, height, num_parts, FloorDiv(height, num_parts))

BoxWidth(b) == b[3] - b[1]
BoxHeight(b) == b[4] - b[2]
BoxTop(b) == b[2]
BoxBottom(b) == b[4]

\* ------------------------------------------------------------------ state
VARIABLES
  \* filename codec applied to one name
  c_pc, c_filename, c_page_count, c_base, c_output,
  \* one call of cut_image_vertically
  s_pc, s_width, s_height, s_parts, s_part_height, s_images, s_error,
  \* the file system: the entries of the input directory
  dir_files,
  \* ImageCutterApp fields and the main run loop
  input_folder, output_folder, is_processing, log_queue, log_view,
  btn_enabled, finish_success, ui_timer, main_pc, runs, clicks, n_running,
  \* the worker thread: process_thread and the locals of process_folder
  w_pc, folder_path, out_folder, image_files, idx, success_count,
  error_count, page_count, base_filename, images, w_success, w_exc,
  \* history of the current run, for stating the claims
  pf_result, n_finished, raised, completed, skipped, sliced, part_counts

codecVars == << c_pc, c_filename, c_page_count, c_base, c_output >>
sliceVars == << s_pc, s_width, s_height, s_parts, s_part_height, s_images, s_error >>
guiVars == << input_folder, output_folder, is_processing, log_view,
              btn_enabled, main_pc, runs, clicks >>
localVars == << folder_path, out_folder, image_files, idx, success_count,
                error_count, page_count, base_filename, images >>
histVars == << pf_result, n_finished, raised, completed, skipped, sliced, part_counts >>
vars == << codecVars, sliceVars, dir_files, guiVars, log_queue, finish_success,
           ui_timer, n_running, w_pc, localVars, w_success, w_exc, histVars >>

\* ------------------------------------------------------ idle sub-states
\* Each specification below runs one part of the program; the variables of
\* the other parts stay at these values.
CodecIdle ==
  /\ c_pc = "idle" /\ c_filename = << >> /\ c_page_count = None
  /\ c_base = None /\ c_output = << >>

SliceIdle ==
  /\ s_pc = "idle" /\ s_width = 0 /\ s_height = 0 /\ s_parts = 0
  /\ s_part_height = 0 /\ s_images = << >> /\ s_error = ""

\* ImageCutterApp.init (lines 130-140); the window exists, the log view is empty
AppInit ==
  /\ input_folder = "" /\ output_folder = "" /\ is_processing = FALSE
  /\ log_queue = << >> /\ log_view = << >> /\ btn_enabled = TRUE
  /\ finish_success = None /\ ui_timer = FALSE /\ main_pc = "idle"
  /\ runs = 0 /\ clicks = 0 /\ n_running = 0

LocalsInit ==
  /\ folder_path = "" /\ out_folder = "" /\ image_files = << >> /\ idx = 0
  /\ success_count = 0 /\ error_count = 0 /\ page_count = None
  /\ base_filename = None /\ images = << >> /\ w_success = FALSE /\ w_exc = ""

HistInit ==
  /\ pf_result = "none" /\ n_finished = 0 /\ raised = {} /\ completed = {}
  /\ skipped = {} /\ sliced = {} /\ part_counts = {}

WorkerIdle == w_pc = "none" /\ LocalsInit /\ HistInit

\* ------------------------------------------------- specification: codec
StemChars == {"a", "-", "1", "0", NL}

Stems == UNION { [1..n -> StemChars] : n \in 0..MaxStemLen }

Suffixes ==
  { << >>,
    <<".", "p", "n", "g">>, <<".", "P", "N", "G">>, <<".", "P", "n", "g">>,
    <<".", "j", "p", "g">>, <<".", "j", "p", "e", "g">>,
    <<".", "J", "P", "E", "G">>, <<".", "j", "p", "G">>,
    <<".", "p", "d", "f">>, <<".", "p", "n", "g", NL>> }

Filenames == { stem \o suf : stem \in Stems, suf \in Suffixes }

InitCodec ==
  /\ c_pc = "input" /\ c_filename \in Filenames
  /\ c_page_count = None /\ c_base = None /\ c_output = << >>
  /\ SliceIdle /\ dir_files = << >> /\ AppInit /\ WorkerIdle

\* the three codec functions applied to one filename
ParseFilename ==
  /\ c_pc = "input"
  /\ c_page_count' = extract_page_count(c_filename)
  /\ c_base' = get_base_filename(c_filename)
  /\ c_output' = get_output_filename(c_filename)
  /\ c_pc' = "parsed"
  /\ UNCHANGED << c_filename, sliceVars, dir_files, guiVars, log_queue,
                  finish_success, ui_timer, n_running, w_pc, localVars, w_success, w_exc,
                  histVars >>

NextCodec == ParseFilename

SpecCodec == InitCodec /\ [][NextCodec]_vars

\* ------------------------------------------------ specification: slicer
InitSlice ==
  /\ s_pc = "call"
  /\ s_width \in 1..MaxWidth /\ s_height \in 0..MaxHeight
  /\ s_parts \in 0..MaxParts
  /\ s_part_height = 0 /\ s_images = << >> /\ s_error = ""
  /\ CodecIdle /\ dir_files = << >> /\ AppInit /\ WorkerIdle

sliceRest == << codecVars, dir_files, guiVars, log_queue, finish_success,
                ui_timer, n_running, w_pc, localVars, w_success, w_exc, histVars >>

\* lines 62-68: Image.open (which may fail to decode), img.size,
\* part_height = height // num_parts (ZeroDivisionError for num_parts = 0)
SliceOpen ==
  /\ s_pc = "call"
  /\ \E decodable \in BOOLEAN :
       IF ~decodable
         THEN s_pc' = "raised" /\ s_error' = "decode" /\ UNCHANGED s_part_height
         ELSE IF s_parts = 0
           THEN s_pc' = "raised" /\ s_error' = "zerodiv" /\ UNCHANGED s_part_height
           ELSE /\ s_part_height' = FloorDiv(s_height, s_parts)
                /\ s_pc' = "loop" /\ UNCHANGED s_error
  /\ UNCHANGED << s_width, s_height, s_parts, s_images, sliceRest >>

\* lines 69-77: one iteration of the for loop, i = len(images)
SliceCrop ==
  /\ s_pc = "loop" /\ Len(s_images) < s_parts
  /\ s_images' = Append(s_images,
       CropBox(Len(s_images), s_width, s_height, s_parts, s_part_height))
  /\ UNCHANGED << s_pc, s_width, s_height, s_parts, s_part_height, s_error, sliceRest >>

\* lines 79-80
SliceReturn ==
  /\ s_pc = "loop" /\ Len(s_images) = s_parts
  /\ s_pc' = "returned"
  /\ UNCHANGED << s_width, s_height, s_parts, s_part_height, s_images, s_error, sliceRest >>

NextSlice == SliceOpen \/ SliceCrop \/ SliceReturn

SpecSlice == InitSlice /\ [][NextSlice]_vars

\* --------------------------------------------------- the file system
MaxFiles == 4

\* "docs": a listable directory; "locked": a directory that cannot be listed;
\* "notadir": a regular file; "newdir": nothing there yet
Paths == {"docs", "locked", "notadir", "newdir"}

\* os.path.isdir
IsDir(p) == p \in {"docs", "locked"}
\* os.makedirs(p, exist_ok=True) succeeds: not when a regular file is in the way
CanMake(p) == p # "notadir"
\* os.listdir succeeds
CanList(p) == p = "docs"

F_a2 == <<"a", "-", "2", ".", "p", "n", "g">>
F_cd3 == <<"c", "-", "d", "-", "3", ".", "J", "P", "G">>
F_x0 == <<"x", "-", "0", ".", "p", "n", "g">>
F_m5 == <<"-", "5", ".", "p", "n", "g">>
F_notes == <<"n", "o", "t", "e", "s", ".", "p", "n", "g">>
F_bPng == <<"b", "-", "1", ".", "P", "n", "g">>

FilePool == {F_a2, F_cd3, F_x0, F_m5, F_notes, F_bPng}

NoRepeat(fs) == \A i, j \in 1..Len(fs) : i # j => fs[i] # fs[j]

\* what a directory can hold: distinct names, in the order os.listdir gives them
Listings ==
  { fs \in UNION { [1..n -> FilePool] : n \in 0..MaxFiles } : NoRepeat(fs) }

\* the (width, height) of the images in the directory
ImageSizes == { <<1, 1>>, <<MaxWidth, MaxHeight>> }

\* --------------------------------------------------------- log messages
Msg(kind, file, path, n, m, err) ==
  [kind |-> kind, file |-> file, path |-> path, n |-> n, m |-> m, err |-> err]

NoFile == << >>

\* lines 359-363
Header(input_path, output_path) ==
  << Msg("rule", NoFile, "", 0, 0, ""),
     Msg("start", NoFile, "", 0, 0, ""),
     Msg("input", NoFile, input_path, 0, 0, ""),
     Msg("output", NoFile, output_path, 0, 0, ""),
     Msg("rule_nl", NoFile, "", 0, 0, "") >>

\* ------------------------------------------------------ the worker thread
workerRest == << codecVars, sliceVars, dir_files, guiVars >>

\* the current element of "for filename in image_files"
CurFile == image_files[idx]

\* lines 384-386
PF_CheckDir ==
  /\ w_pc = "isdir"
  /\ IF ~IsDir(folder_path)
       THEN /\ log_queue' = Append(log_queue, Msg("not_a_dir", NoFile, folder_path, 0, 0, ""))
            /\ w_success' = FALSE /\ pf_result' = "returned" /\ w_pc' = "finish"
       ELSE /\ w_pc' = "makedirs"
            /\ UNCHANGED << log_queue, w_success, pf_result >>
  /\ UNCHANGED << workerRest, n_running, finish_success, ui_timer, localVars, w_exc,
                  n_finished, raised, completed, skipped, sliced, part_counts >>

\* line 389: an OSError leaves process_folder
PF_MakeDirs ==
  /\ w_pc = "makedirs"
  /\ IF CanMake(out_folder)
       THEN w_pc' = "listdir" /\ UNCHANGED << w_exc, pf_result >>
       ELSE w_pc' = "except" /\ w_exc' = "mkdir" /\ pf_result' = "raised"
  /\ UNCHANGED << workerRest, n_running, log_queue, finish_success, ui_timer, localVars,
                  w_success, n_finished, raised, completed, skipped, sliced,
                  part_counts >>

\* lines 392-403: os.listdir (an OSError leaves process_folder too), the
\* candidates `found`, and the value returned when there are none
ListDirWith(found, none_found_result) ==
  /\ w_pc = "listdir"
  /\ IF ~CanList(folder_path)
       THEN /\ w_pc' = "except" /\ w_exc' = "listdir" /\ pf_result' = "raised"
            /\ UNCHANGED << log_queue, image_files, idx, success_count,
                            error_count, w_success >>
       ELSE /\ image_files' = found
            /\ IF found = << >>
                 THEN /\ log_queue' = log_queue \o
                           << Msg("none_found", NoFile, folder_path, 0, 0, ""),
                              Msg("format_hint", NoFile, "", 0, 0, "") >>
                      /\ w_success' = none_found_result /\ pf_result' = "returned"
                      /\ w_pc' = "finish"
                      /\ UNCHANGED << idx, success_count, error_count >>
                 ELSE /\ log_queue' = Append(log_queue,
                           Msg("found", NoFile, "", Len(found), 0, ""))
                      /\ success_count' = 0 /\ error_count' = 0 /\ idx' = 1
                      /\ w_pc' = "loop"
                      /\ UNCHANGED << w_success, pf_result >>
            /\ UNCHANGED w_exc
  /\ UNCHANGED << workerRest, n_running, finish_success, ui_timer, folder_path, out_folder,
                  page_count, base_filename, images, n_finished, raised,
                  completed, skipped, sliced, part_counts >>

\* discovery without the filter on the names
PF_ListDirNoFilter == ListDirWith(dir_files, FALSE)

\* an empty batch returns True
PF_ListDirEmptyIsTrue == ListDirWith(SelectSeq(dir_files, IsCandidate), TRUE)

\* lines 392-403 with the filter of line 393 and the return value of line 398
PF_ListDir == ListDirWith(SelectSeq(dir_files, IsCandidate), FALSE)

\* lines 405-426: the next file, or the end of the loop
PF_NextFile ==
  /\ w_pc = "loop"
  /\ IF idx > Len(image_files)
       THEN /\ w_pc' = "tally"
            /\ UNCHANGED << log_queue, idx, page_count, base_filename, skipped >>
       ELSE LET pages == extract_page_count(CurFile)
                base == get_base_filename(CurFile) IN
            IF pages = None
              THEN /\ log_queue' = Append(log_queue, Msg("skip_pages", CurFile, "", 0, 0, ""))
                   /\ page_count' = pages /\ idx' = idx + 1
                   /\ skipped' = skipped \cup {idx}
                   /\ UNCHANGED << w_pc, base_filename >>
              ELSE IF base = None
                THEN /\ log_queue' = log_queue \o
                          << Msg("processing", CurFile, "", pages[1], 0, ""),
                             Msg("skip_base", CurFile, "", 0, 0, "") >>
                     /\ page_count' = pages /\ base_filename' = base
                     /\ idx' = idx + 1 /\ skipped' = skipped \cup {idx}
                     /\ UNCHANGED w_pc
                ELSE /\ log_queue' = log_queue \o
                          << Msg("processing", CurFile, "", pages[1], 0, ""),
                             Msg("cutting", NoFile, "", 0, 0, "") >>
                     /\ page_count' = pages /\ base_filename' = base
                     /\ w_pc' = "cut"
                     /\ UNCHANGED << idx, skipped >>
  /\ UNCHANGED << workerRest, n_running, finish_success, ui_timer, folder_path, out_folder,
                  image_files, success_count, error_count, images, w_success,
                  w_exc, pf_result, n_finished, raised, completed, sliced,
                  part_counts >>

\* the except clause lets the exception go on to process_thread
ExceptFileReraise(err) ==
  /\ w_pc' = "except" /\ w_exc' = err /\ pf_result' = "raised"
  /\ UNCHANGED << log_queue, error_count, idx >>

\* lines 444-446: the except clause of the loop body
ExceptFile(err) ==
  /\ log_queue' = Append(log_queue, Msg("file_error", CurFile, "", 0, 0, err))
  /\ error_count' = error_count + 1
  /\ idx' = idx + 1
  /\ w_pc' = "loop"
  /\ UNCHANGED << w_exc, pf_result >>

\* lines 427-431: cut_image_vertically(input_path, page_count)
PF_Cut ==
  /\ w_pc = "cut"
  /\ sliced' = sliced \cup {CurFile}
  /\ part_counts' = part_counts \cup {page_count[1]}
  /\ \E decodable \in BOOLEAN, size \in ImageSizes :
       IF ~decodable \/ page_count[1] = 0
         THEN /\ ExceptFile(IF ~decodable THEN "decode" ELSE "zerodiv")
              /\ raised' = raised \cup {idx}
              /\ UNCHANGED images
         ELSE /\ images' = cut_image_vertically(size[1], size[2], page_count[1])
              /\ log_queue' = log_queue \o
                   << Msg("cut_done", NoFile, "", Len(images'), 0, ""),
                      Msg("saving", NoFile, "", 0, 0, "") >>
              /\ w_pc' = "save"
              /\ UNCHANGED << error_count, idx, raised, w_exc, pf_result >>
  /\ UNCHANGED << workerRest, n_running, finish_success, ui_timer, folder_path, out_folder,
                  image_files, success_count, page_count, base_filename,
                  w_success, n_finished, completed, skipped >>

\* lines 432-439: save_cut_images writes one PNG per strip, or fails on one
PF_Save ==
  /\ w_pc = "save"
  /\ \E written \in BOOLEAN :
       IF ~written
         THEN /\ ExceptFile("io_strip")
              /\ raised' = raised \cup {idx}
         ELSE /\ log_queue' = log_queue \o
                   << Msg("saved", NoFile, "", Len(images), 0, ""),
                      Msg("making_pdf", get_output_filename(CurFile), "", 0, 0, "") >>
              /\ w_pc' = "pdf"
              /\ UNCHANGED << error_count, idx, raised, w_exc, pf_result >>
  /\ UNCHANGED << workerRest, n_running, finish_success, ui_timer, folder_path, out_folder,
                  image_files, success_count, page_count, base_filename, images,
                  w_success, n_finished, completed, skipped, sliced, part_counts >>

\* lines 440-443: images_to_pdf, then the file counts as a success
PF_Pdf ==
  /\ w_pc = "pdf"
  /\ \E written \in BOOLEAN :
       IF ~written
         THEN /\ ExceptFile("io_pdf")
              /\ raised' = raised \cup {idx}
              /\ UNCHANGED << success_count, completed >>
         ELSE /\ log_queue' = Append(log_queue,
                   Msg("done", get_output_filename(CurFile), "", 0, 0, ""))
              /\ success_count' = success_count + 1
              /\ completed' = completed \cup {idx}
              /\ idx' = idx + 1
              /\ w_pc' = "loop"
              /\ UNCHANGED << error_count, raised, w_exc, pf_result >>
  /\ UNCHANGED << workerRest, n_running, finish_success, ui_timer, folder_path, out_folder,
                  image_files, page_count, base_filename, images, w_success,
                  n_finished, skipped, sliced, part_counts >>

\* lines 448-449: the tally, and process_folder returns (its strips are released)
PF_Tally ==
  /\ w_pc = "tally"
  /\ log_queue' = Append(log_queue, Msg("tally", NoFile, "", success_count, error_count, ""))
  /\ w_success' = TRUE /\ pf_result' = "returned" /\ w_pc' = "finish"
  /\ images' = << >>
  /\ UNCHANGED << workerRest, n_running, finish_success, ui_timer, folder_path,
                  out_folder, image_files, idx, success_count, error_count,
                  page_count, base_filename, w_exc, n_finished, raised,
                  completed, skipped, sliced, part_counts >>

\* process_thread swallows the exception without a log message
Thread_ExceptSilent ==
  /\ w_pc = "except"
  /\ w_success' = FALSE
  /\ w_pc' = "finish"
  /\ UNCHANGED << workerRest, n_running, log_queue, finish_success, ui_timer, localVars,
                  w_exc, histVars >>

\* lines 375-376: process_thread catches what process_folder raised
Thread_Except ==
  /\ w_pc = "except"
  /\ log_queue' = Append(log_queue, Msg("thread_error", NoFile, "", 0, 0, w_exc))
  /\ w_success' = FALSE
  /\ w_pc' = "finish"
  /\ UNCHANGED << workerRest, n_running, finish_success, ui_timer, localVars, w_exc, histVars >>

\* lines 374/377 and 451-461: on_processing_finished(success), on the worker
\* thread: the one-shot timer is scheduled from there, and the thread has
\* nothing left to run
on_processing_finished ==
  /\ w_pc = "finish"
  /\ finish_success' = Some(w_success)
  /\ ui_timer' = TRUE
  /\ n_finished' = n_finished + 1
  /\ n_running' = n_running - 1
  /\ w_pc' = "exit"
  /\ UNCHANGED << workerRest, log_queue, localVars, w_success, w_exc, pf_result,
                  raised, completed, skipped, sliced, part_counts >>

\* process_thread returns and the thread ends.  NSTimer's scheduledTimer...
\* registers the timer with the run loop of the calling thread; the worker
\* never runs one, so a timer that has not fired by now is lost with it.
Thread_Exit ==
  /\ w_pc = "exit"
  /\ w_pc' = "none"
  /\ ui_timer' = FALSE
  /\ UNCHANGED << workerRest, n_running, log_queue, finish_success, localVars, w_success,
                  w_exc, histVars >>

NextWorker ==
  \/ PF_CheckDir \/ PF_MakeDirs \/ PF_ListDir \/ PF_NextFile \/ PF_Cut
  \/ PF_Save \/ PF_Pdf \/ PF_Tally \/ Thread_Except \/ on_processing_finished
  \/ Thread_Exit

\* --------------------------------------- specification: one batch run
\* The state in which startProcessing_ leaves a new application when it starts
\* the worker with (folder_path, out_folder).
InitBatch ==
  /\ CodecIdle /\ SliceIdle
  /\ dir_files \in Listings
  /\ folder_path \in Paths /\ out_folder \in Paths
  /\ input_folder = folder_path /\ output_folder = out_folder
  /\ is_processing = TRUE /\ btn_enabled = FALSE
  /\ log_queue = Header(folder_path, out_folder) /\ log_view = << >>
  /\ finish_success = None /\ ui_timer = FALSE /\ main_pc = "idle"
  /\ runs = 1 /\ clicks = 0 /\ n_running = 1
  /\ w_pc = "isdir"
  /\ image_files = << >> /\ idx = 0 /\ success_count = 0 /\ error_count = 0
  /\ page_count = None /\ base_filename = None /\ images = << >>
  /\ w_success = FALSE /\ w_exc = ""
  /\ HistInit

SpecBatch == InitBatch /\ [][NextWorker]_vars

\* ------------------------------------- specification: the application
\* the user's actions (folder selections and starts) the model follows
MaxClicks == 3

\* the directories offered by NSOpenPanel (setCanChooseDirectories_(True))
PanelPaths == {"docs", "locked"}

\* the directories the application is run on: an empty one, one with a good
\* image, one with a name the filter rejects and an image named for 0 parts
GuiListings == { << >>, << F_a2 >>, << F_notes, F_x0 >> }

mainRest == << codecVars, sliceVars, dir_files, finish_success, ui_timer,
               n_running, w_pc, localVars, w_success, w_exc, histVars >>

\* lines 275-299, the panel answered with OK (a cancelled panel changes nothing)
selectInputFolder_ ==
  /\ main_pc = "idle" /\ clicks < MaxClicks
  /\ \E path \in PanelPaths :
       /\ input_folder' = path
       /\ log_queue' = Append(log_queue, Msg("selected_input", NoFile, path, 0, 0, ""))
       /\ output_folder' = IF output_folder = "" THEN path ELSE output_folder
  /\ clicks' = clicks + 1
  /\ UNCHANGED << is_processing, log_view, btn_enabled, main_pc, runs, mainRest >>

\* lines 301-319
selectOutputFolder_ ==
  /\ main_pc = "idle" /\ clicks < MaxClicks
  /\ \E path \in PanelPaths :
       /\ output_folder' = path
       /\ log_queue' = Append(log_queue, Msg("selected_output", NoFile, path, 0, 0, ""))
  /\ clicks' = clicks + 1
  /\ UNCHANGED << input_folder, is_processing, log_view, btn_enabled, main_pc,
                  runs, mainRest >>

\* lines 344-380: the log view is cleared, the header is queued, the button
\* is disabled and the worker thread is started with fresh locals
StartRun ==
  LET input_path == input_folder
      output_path == IF output_folder = "" THEN input_folder ELSE output_folder
  IN /\ clicks < MaxClicks
     /\ clicks' = clicks + 1
     /\ output_folder' = output_path
     /\ log_view' = << >>
     /\ log_queue' = log_queue \o Header(input_path, output_path)
     /\ is_processing' = TRUE /\ btn_enabled' = FALSE
     /\ n_running' = n_running + 1 /\ runs' = runs + 1
     /\ w_pc' = "isdir"
     /\ folder_path' = input_path /\ out_folder' = output_path
     /\ image_files' = << >> /\ idx' = 0 /\ success_count' = 0
     /\ error_count' = 0 /\ page_count' = None /\ base_filename' = None
     /\ images' = << >> /\ w_success' = FALSE /\ w_exc' = ""
     /\ pf_result' = "none" /\ n_finished' = 0 /\ raised' = {}
     /\ completed' = {} /\ skipped' = {} /\ sliced' = {} /\ part_counts' = {}
     /\ UNCHANGED << input_folder, main_pc, codecVars, sliceVars,
                     dir_files, finish_success, ui_timer >>

\* startProcessing_ without the is_processing test of lines 340-342
startProcessingNoGuard ==
  /\ main_pc = "idle" /\ input_folder # ""
  /\ StartRun

\* lines 338-380: while a batch runs, or without an input folder, only an
\* alert is shown
startProcessing_ ==
  /\ main_pc = "idle"
  /\ IF is_processing \/ input_folder = ""
       THEN UNCHANGED vars
       ELSE StartRun

\* lines 325-328: the repeating timer fires on the main run loop
updateLogFromQueue_ ==
  /\ main_pc = "idle"
  /\ main_pc' = "drain"
  /\ UNCHANGED << input_folder, output_folder, is_processing, log_queue,
                  log_view, btn_enabled, runs, clicks, mainRest >>

\* the loop body takes the newest message instead of the oldest
updateLogFromQueue_GetLast ==
  /\ main_pc = "drain" /\ log_queue # << >>
  /\ log_view' = Append(log_view, log_queue[Len(log_queue)])
  /\ log_queue' = SubSeq(log_queue, 1, Len(log_queue) - 1)
  /\ UNCHANGED << input_folder, output_folder, is_processing, btn_enabled,
                  main_pc, runs, clicks, mainRest >>

\* lines 328-334: one iteration of "while not self.log_queue.empty()":
\* get_nowait, then the view's text becomes text + message + "\n"
updateLogFromQueue_Get ==
  /\ main_pc = "drain" /\ log_queue # << >>
  /\ log_view' = Append(log_view, Head(log_queue))
  /\ log_queue' = Tail(log_queue)
  /\ UNCHANGED << input_folder, output_folder, is_processing, btn_enabled,
                  main_pc, runs, clicks, mainRest >>

\* line 328: the queue is empty, the handler returns
updateLogFromQueue_Return ==
  /\ main_pc = "drain" /\ log_queue = << >>
  /\ main_pc' = "idle"
  /\ UNCHANGED << input_folder, output_folder, is_processing, log_queue,
                  log_view, btn_enabled, runs, clicks, mainRest >>

\* lines 463-473, if the one-shot timer fires: the source's comment expects it
\* on the main run loop (see Thread_Exit for the timer that never fires)
updateUIAfterProcessing_ ==
  /\ main_pc = "idle" /\ ui_timer
  /\ ui_timer' = FALSE
  /\ is_processing' = FALSE
  /\ btn_enabled' = TRUE
  /\ UNCHANGED << input_folder, output_folder, log_queue, log_view, main_pc,
                  runs, clicks, codecVars, sliceVars, dir_files,
                  finish_success, n_running, w_pc, localVars, w_success, w_exc,
                  histVars >>

Init ==
  /\ CodecIdle /\ SliceIdle /\ AppInit /\ WorkerIdle
  /\ dir_files \in GuiListings

Next ==
  \/ selectInputFolder_ \/ selectOutputFolder_ \/ startProcessing_
  \/ updateLogFromQueue_ \/ updateLogFromQueue_Get \/ updateLogFromQueue_Return
  \/ updateUIAfterProcessing_
  \/ PF_CheckDir \/ PF_MakeDirs \/ PF_ListDir \/ PF_NextFile \/ PF_Cut
  \/ PF_Save \/ PF_Pdf \/ PF_Tally \/ Thread_Except \/ on_processing_finished
  \/ Thread_Exit

Spec == Init /\ [][Next]_vars

\* ------------------------------------------------ claims on one batch run
\* In SpecBatch nothing drains log_queue: it holds the whole message log.
Logged(kind) == \E k \in 1..Len(log_queue) : log_queue[k].kind = kind

Named(f) == \E k \in 1..Len(log_queue) : log_queue[k].file = f

TallyDone == pf_result = "returned" /\ w_success

\* C1: an exception raised while slicing, writing strips or assembling the PDF
\* of one file is caught in the loop and logged with the filename and the
\* error text; the files after it are still processed, and the final tally
\* counts one failure per file that raised and one success per file that
\* completed all three steps.
C1_BatchSurvivesFailures ==
  /\ raised # {} => pf_result # "raised" /\ w_pc # "except"
  /\ \A i \in raised :
       \E k \in 1..Len(log_queue) :
         /\ log_queue[k].kind = "file_error"
         /\ log_queue[k].file = image_files[i]
         /\ log_queue[k].err \in {"decode", "zerodiv", "io_strip", "io_pdf"}
  /\ w_pc = "loop" =>
       /\ error_count = Cardinality(raised)
       /\ success_count = Cardinality(completed)
       /\ raised \cup completed \cup skipped = 1..(idx - 1)
  /\ TallyDone =>
       /\ raised \cup completed \cup skipped = 1..Len(image_files)
       /\ error_count = Cardinality(raised)
       /\ success_count = Cardinality(completed)
       /\ \E k \in 1..Len(log_queue) :
            /\ log_queue[k].kind = "tally"
            /\ log_queue[k].n = Cardinality(completed)
            /\ log_queue[k].m = Cardinality(raised)

\* a file raised, a later one completed, and the tally reports both
C1_Witness ==
  /\ TallyDone
  /\ \E i \in raised, j \in completed : i < j
  /\ error_count = 1 /\ success_count >= 1

\* C2 as stated: process_folder always returns, it never raises.
C2_NoExceptionEscapesProcessFolder == pf_result # "raised"

\* C2 as amended: an input path that is not a directory makes process_folder
\* log that and return False; a failure of os.makedirs or os.listdir leaves
\* process_folder as an exception, which process_thread catches, logs with its
\* text, and reports through on_processing_finished(False): no exception
\* leaves the worker thread and the end of the run is signalled once.
C2_ThreadCatchesSetupErrors ==
  /\ (~IsDir(folder_path) /\ w_pc # "isdir") =>
       /\ pf_result = "returned" /\ ~w_success
       /\ \E k \in 1..Len(log_queue) :
            log_queue[k].kind = "not_a_dir" /\ log_queue[k].path = folder_path
  /\ pf_result = "raised" =>
       /\ w_exc \in {"mkdir", "listdir"}
       /\ w_exc = "mkdir" <=> ~CanMake(out_folder)
       /\ sliced = {}
       /\ w_pc \in {"except", "finish", "exit", "none"}
  /\ (pf_result = "raised" /\ w_pc \in {"finish", "exit", "none"}) =>
       /\ ~w_success
       /\ \E k \in 1..Len(log_queue) :
            log_queue[k].kind = "thread_error" /\ log_queue[k].err = w_exc
  /\ w_pc \in {"exit", "none"} =>
       /\ n_finished = 1 /\ pf_result # "none"
       /\ finish_success = Some(w_success)

C2_Witness ==
  /\ w_pc = "none" /\ pf_result = "raised" /\ w_exc = "mkdir"
  /\ finish_success = Some(FALSE)

\* C5 as stated: every part count handed to cut_image_vertically, and every
\* page count extracted from a discovered file, is at least 1.
C5_PartCountAtLeastOne ==
  /\ \A n \in part_counts : n >= 1
  /\ page_count # None => page_count[1] >= 1

RECURSIVE SumHeights(_)
SumHeights(boxes) ==
  IF boxes = << >> THEN 0
  ELSE BoxHeight(boxes[Len(boxes)]) + SumHeights(SubSeq(boxes, 1, Len(boxes) - 1))

C3_StripsPartitionImage ==
  (s_pc = "returned" /\ s_parts >= 1) =>
    /\ Len(s_images) = s_parts
    /\ s_images = cut_image_vertically(s_width, s_height, s_parts)
    /\ \A k \in 1..s_parts :
         /\ BoxWidth(s_images[k]) = s_width /\ s_images[k][1] = 0
         /\ BoxTop(s_images[k]) <= BoxBottom(s_images[k])
    /\ BoxTop(s_images[1]) = 0
    /\ BoxBottom(s_images[s_parts]) = s_height
    /\ \A k \in 1..(s_parts - 1) :
         /\ BoxTop(s_images[k + 1]) = BoxBottom(s_images[k])
         /\ BoxHeight(s_images[k]) = s_height \div s_parts
    /\ BoxHeight(s_images[s_parts]) = s_height - (s_parts - 1) * (s_height \div s_parts)
    /\ SumHeights(s_images) = s_height
    /\ s_parts = 1 => s_images = << << 0, 0, s_width, s_height >> >>

\* 7 rows in 3 parts: heights 2, 2 and 3
C3_Witness ==
  /\ s_pc = "returned" /\ s_parts = 3 /\ s_height = 7
  /\ BoxHeight(s_images[1]) = 2 /\ BoxHeight(s_images[3]) = 3

\* -------------------------------------------------- claims on the codec
Lower(c) ==
  CASE c = "P" -> "p" [] c = "N" -> "n" [] c = "G" -> "g"
    [] c = "J" -> "j" [] c = "E" -> "e" [] OTHER -> c

LowerSeq(s) == [k \in 1..Len(s) |-> Lower(s[k])]

ClaimExts == { <<"p", "n", "g">>, <<"j", "p", "g">>, <<"j", "p", "e", "g">> }

\* s is <base>-<N>.<ext>: the base ends before position i, N ends at j, and
\* ext is png, jpg or jpeg in any letter case
ClaimForm(s, i, j) ==
  /\ 2 <= i /\ i < j /\ j + 2 <= Len(s)
  /\ s[i] = "-"
  /\ \A k \in (i + 1)..j : IsDigit(s[k])
  /\ s[j + 1] = "."
  /\ LowerSeq(SubSeq(s, j + 2, Len(s))) \in ClaimExts

\* C4 as stated: for <base>-<N>.<ext> with a non-empty base and ext one of
\* png, jpg, jpeg in any letter case, extract_page_count returns N and
\* get_base_filename returns <base>.
C4_CodecParsesAnyCase ==
  c_pc = "parsed" =>
    \A i, j \in 1..Len(c_filename) :
      ClaimForm(c_filename, i, j) =>
        /\ c_page_count = Some(ToInt(SubSeq(c_filename, i + 1, j)))
        /\ c_base = Some(SubSeq(c_filename, 1, i - 1))

\* --------------------------------------------- claims on the application
\* The scheduling the run loop and the thread give: the worker keeps running,
\* a started drain loop goes on to its end, and a pending one-shot timer on a
\* run loop that is served fires.
FairSpec ==
  /\ Spec
  /\ WF_vars(NextWorker)
  /\ WF_vars(updateLogFromQueue_Get)
  /\ WF_vars(updateLogFromQueue_Return)
  /\ SF_vars(updateUIAfterProcessing_)

IsPrefix(p, q) == Len(p) <= Len(q) /\ SubSeq(q, 1, Len(p)) = p

\* C8: in every interleaving of appendLog_ on the worker and on the main
\* thread, startProcessing_ (which clears the view) and updateLogFromQueue_,
\* a step either adds messages at the tail of the queue (the view is left
\* alone or cleared), or moves exactly the oldest queued message, whole, to
\* the end of the displayed log: no message is lost, duplicated or reordered.
C8_OrderedDelivery ==
  [][ \/ /\ IsPrefix(log_queue, log_queue')
         /\ log_view' = log_view \/ log_view' = << >>
      \/ /\ log_queue # << >>
         /\ log_queue' = Tail(log_queue)
         /\ log_view' = Append(log_view, Head(log_queue)) ]_<< log_queue, log_view >>

\* the timer drains the queue while the worker is between cut and save, with
\* a message of the main thread queued behind the worker's
C8_Witness ==
  /\ main_pc = "drain" /\ w_pc = "save"
  /\ \E k \in 1..Len(log_view) : log_view[k].kind = "cutting"
  /\ \E k \in 1..Len(log_queue) : log_queue[k].kind = "selected_output"
  /\ log_queue[1].kind = "cut_done"

\* C9 as stated: on_processing_finished is called once per run, and every
\* started run leads to updateUIAfterProcessing_ resetting is_processing
\* and enabling the start button again.
C9_RunEndsAndUIResets ==
  /\ [](n_finished <= 1)
  /\ (w_pc = "isdir") ~> (~is_processing /\ btn_enabled)

\* C10: at most one worker thread is running a batch; while it executes
\* process_thread up to the call of on_processing_finished, is_processing is True and the
\* button disabled; a step taken while is_processing is True starts no run,
\* and startProcessing_ then changes nothing.
C10_SingleBatch ==
  /\ [](/\ n_running <= 1
        /\ n_running = (IF w_pc \in {"none", "exit"} THEN 0 ELSE 1)
        /\ w_pc \notin {"none", "exit"} => (is_processing /\ ~btn_enabled))
  /\ [][ /\ is_processing => (runs' = runs /\ n_running' <= n_running)
         /\ (is_processing /\ startProcessing_) => UNCHANGED vars
         /\ (is_processing /\ ~is_processing') => w_pc \in {"none", "exit"} ]_vars

\* a second batch runs after the first one was finished and the UI reset
C10_Witness == runs = 2 /\ w_pc = "cut" /\ is_processing /\ n_running = 1

====
